---- MODULE Spec2Model ----
(***************************************************************************)
(* A model of the CV curve viewer (src/app.py): the CSV loader, the cycle  *)
(* segmenter, and the single-file and multi-file plot composers.           *)
(*                                                                         *)
(* Potentials are integers counting half-millivolts, so that the default   *)
(* tolerance 1e-3 V is 2 and the strict comparison |p - v0| < tol can be   *)
(* told from <=.  Indices into a curve are 0-based as in the code; the     *)
(* TLA+ sequence holding the curve is 1-based, hence P[i + 1].             *)
(*                                                                         *)
(* Two specifications share the variables.  SegSpec runs the segmenter on  *)
(* a potential sequence; Spec is one run of the script on the uploaded     *)
(* files, with the loop of plot_multi_cv taken one file at a time.  An     *)
(* uploaded file is a stream: pd.read_csv reads it to its end and leaves   *)
(* it there, so a second read of the same file within a run finds nothing  *)
(* to parse (consumed).  An exception is the end of the run (pc = "error"):*)
(* nothing in the script catches one.                                      *)
(***************************************************************************)
EXTENDS Integers, Sequences, FiniteSets, TLC

VARIABLES
    potential,      \* segmenter run: the potential sequence handed to the segmenter
    tol,            \* segmenter run: the tolerance argument
    segResult,      \* segmenter run: Pending, or what the call produced
    uploaded_files, \* script run: the uploaded files, in upload order
    opts,           \* script run: the widget values of this run
    consumed,       \* script run: per file, whether its stream was read to the end
    pc,             \* script run: position of the script
    idx,            \* script run: loop index i of plot_multi_cv
    series,         \* script run: the series added to the axes so far
    labels,         \* script run: the axis units set on the figure, or Unset
    warnings,       \* script run: indices of the files st.warning was shown for
    error,          \* script run: "none", or the exception that ended the render
    hidden          \* script run: per file index, the cycles deselected in select_cycles

vars == << potential, tol, segResult, uploaded_files, opts, consumed, pc, idx,
           series, labels, warnings, error, hidden >>

segVars == << potential, tol, segResult >>
runVars == << uploaded_files, opts, consumed, pc, idx, series, labels, warnings, error, hidden >>

----------------------------------------------------------------------------
(* Program constants *)

\* tol=1e-3 in half-millivolts
TolDefault == 2
\* the literal 10 of (i - start_idx) > 10
MinLength == 10
\* savgol_filter(…, 11, 3): the window length
Window == 11
\* colormaps.get_cmap('tab10'): colors.N
PaletteSize == 10

(* Bounds of the model *)
MaxLen == 23
MaxPad == 9

Abs(x) == IF x < 0 THEN -x ELSE x

----------------------------------------------------------------------------
(* split_cycles_by_return_to_start *)

\* a faulty variant: a comparison that admits the tolerance itself
IsReturnLe(P, t, i, start_idx) ==
    /\ Abs(P[i + 1] - P[1]) <= t
    /\ (i - start_idx) > MinLength

\* a faulty variant: a minimum length that admits a segment of exactly 10 points
IsReturnGe(P, t, i, start_idx) ==
    /\ Abs(P[i + 1] - P[1]) < t
    /\ (i - start_idx) >= MinLength

\* line 43: abs(potential[i] - v0) < tol and (i - start_idx) > 10
IsReturn(P, t, i, start_idx) ==
    /\ Abs(P[i + 1] - P[1]) < t
    /\ (i - start_idx) > MinLength

\* a faulty variant: the next segment starts one past the return point
NextStartSkip(i) == i + 1

\* line 46: start_idx = i
NextStart(i) == i

\* lines 42-46: the for loop, from index i on
RECURSIVE ScanFrom(_, _, _, _, _)
ScanFrom(P, t, i, start_idx, segments) ==
    IF i >= Len(P)
    THEN [start_idx |-> start_idx, segments |-> segments]
    ELSE IF IsReturn(P, t, i, start_idx)
         THEN ScanFrom(P, t, i + 1, NextStart(i), Append(segments, << start_idx, i >>))
         ELSE ScanFrom(P, t, i + 1, start_idx, segments)

\* lines 48-49: the remaining data after the last return
Trailing(P, start_idx, segments) ==
    IF start_idx < Len(P)
    THEN Append(segments, << start_idx, Len(P) >>)
    ELSE segments

\* lines 34-51.  potential[0] of an empty array raises IndexError (line 37).
split_cycles_by_return_to_start(P, t) ==
    IF Len(P) = 0
    THEN [ok |-> FALSE, error |-> "IndexError", segments |-> << >>]
    ELSE LET s == ScanFrom(P, t, 1, 0, << >>)
         IN  [ok |-> TRUE, error |-> "none",
              segments |-> Trailing(P, s.start_idx, s.segments)]

----------------------------------------------------------------------------
(* The potential sequences the segmenter is run on *)

\* a potential far outside any tolerance of v0 (1 V away)
FarOff == 1000 * TolDefault
V0 == 250 * TolDefault

\* A sweep of n points starting at V0 that comes back to V0 + d at the
\* (0-based) indices in S and is far from V0 everywhere else.
Sweep(n, S, d) ==
    [k \in 1..n |-> IF k = 1 THEN V0
                    ELSE IF (k - 1) \in S THEN V0 + d
                    ELSE V0 + FarOff]

\* offsets from v0 of a return point: inside the default tolerance (0, -1),
\* and exactly at it (2, -2)
Deltas == {-TolDefault, -1, 0, TolDefault}
Tols == {TolDefault, TolDefault + 1}

\* the worked example of the specification, 0 V .. 3 V in half-millivolts
Example9 == << 0, 2000, 4000, 6000, 0, 2000, 4000, 6000, 0 >>

NoFiles == << >>
NoOpts == [view_mode |-> "none", smooth |-> FALSE, mark_peaks |-> FALSE,
           auto_split |-> FALSE, selected |-> 0, selected_files |-> {}]

Unset == [x |-> "unset", y |-> "unset"]

\* no script run: the render state stays at its initial, empty value
RunIdle ==
    /\ uploaded_files = NoFiles
    /\ opts = NoOpts
    /\ consumed = << >>
    /\ pc = "none"
    /\ idx = 0
    /\ series = << >>
    /\ labels = Unset
    /\ warnings = {}
    /\ error = "none"
    /\ hidden = << >>

\* the call has not been made yet
Pending == [ok |-> FALSE, error |-> "pending", segments |-> << >>]

SegInit ==
    /\ \/ potential = << >>
       \/ \E n \in 1..MaxLen : \E c \in 0..(n - 1) : \E b \in 0..c : \E a \in 0..b :
            \E d \in Deltas :
                potential = Sweep(n, {a, b, c} \ {0}, d)
       \/ potential = Example9
    /\ tol \in Tols
    /\ segResult = Pending
    /\ RunIdle

\* one call of split_cycles_by_return_to_start(potential, tol)
Segment ==
    /\ segResult = Pending
    /\ segResult' = split_cycles_by_return_to_start(potential, tol)
    /\ UNCHANGED << potential, tol >>
    /\ UNCHANGED runVars

SegNext == Segment

SegSpec == SegInit /\ [][SegNext]_vars

Called == segResult.error # "pending"
Returned == segResult.ok
Segs == segResult.segments
NSegs == Len(segResult.segments)
Near(i) == Abs(potential[i + 1] - potential[1]) < tol

\* C1: the segments returned for a potential sequence P are half-open ranges
\* that start at 0, end at len(P), each start where the previous one ended,
\* with strictly increasing starts, so that every index of [0, len(P)) lies
\* in exactly one segment.
C1_Partition ==
    Returned =>
        /\ NSegs >= 1
        /\ Segs[1][1] = 0
        /\ Segs[NSegs][2] = Len(potential)
        /\ \A k \in 1..(NSegs - 1) :
              /\ Segs[k + 1][1] = Segs[k][2]
              /\ Segs[k][1] < Segs[k + 1][1]
        /\ \A i \in 0..(Len(potential) - 1) :
              Cardinality({k \in 1..NSegs : Segs[k][1] <= i /\ i < Segs[k][2]}) = 1

C1_Witness == Returned /\ NSegs = 3 /\ Segs[2] = << 11, 22 >>

\* C2 (as amended): with the minimum length fixed at 10, a segment
\* [start, i) is closed exactly at the first index i past start + 10 whose
\* potential is within the tolerance of P[0]; the rest is the trailing
\* segment; the 9-point worked example has no gap above 10 and gives the
\* single segment (0, 9), as does every non-empty sequence without a return.
C2_ClosesAtReturns ==
    Returned =>
        /\ \A k \in 1..(NSegs - 1) :
              LET s == Segs[k][1]
                  e == Segs[k][2]
              IN  /\ e - s > MinLength
                  /\ Near(e)
                  /\ \A i \in (s + MinLength + 1)..(e - 1) : ~Near(i)
        /\ \A i \in (Segs[NSegs][1] + MinLength + 1)..(Len(potential) - 1) : ~Near(i)
        /\ Segs[NSegs][2] = Len(potential)
        /\ (potential = Example9 /\ tol = TolDefault) => Segs = << << 0, 9 >> >>
        /\ (\A i \in (MinLength + 1)..(Len(potential) - 1) : ~Near(i))
              => Segs = << << 0, Len(potential) >> >>

C2_Witness ==
    /\ Returned
    /\ NSegs = 2
    /\ Segs[1][2] > MinLength + 1
    /\ \E i \in 1..MinLength : Near(i)
    /\ Near(MinLength + 1) = FALSE

\* C2 (as claimed): the worked example segments as [(0,4),(4,8),(8,9)].
C2_Original ==
    (Returned /\ potential = Example9 /\ tol = TolDefault)
        => Segs = << << 0, 4 >>, << 4, 8 >>, << 8, 9 >> >>

\* C3: the segmenter has no error outcome: every potential sequence, the
\* empty one included, gets a segment list, of at most one segment when the
\* sequence has at most one point.
C3_NoError ==
    Called =>
        /\ segResult.ok
        /\ (Len(potential) <= 1 => NSegs <= 1)
        /\ (Len(potential) = 1 => Segs = << << 0, 1 >> >>)

\* C10: for a non-empty potential sequence every segment is non-empty, every
\* segment but the last has at least 11 points, every segment but the first
\* starts at a point within the tolerance of P[0]; so only the last segment
\* can be shorter than the smoothing window.
C10_SegmentShape ==
    (Returned /\ Len(potential) > 0) =>
        /\ \A k \in 1..NSegs : Segs[k][2] - Segs[k][1] >= 1
        /\ \A k \in 1..(NSegs - 1) : Segs[k][2] - Segs[k][1] >= MinLength + 1
        /\ \A k \in 2..NSegs : Near(Segs[k][1])
        /\ \A k \in 1..NSegs : (Segs[k][2] - Segs[k][1] < Window => k = NSegs)

C10_Witness ==
    /\ Returned
    /\ NSegs = 3
    /\ Segs[1][2] - Segs[1][1] = MinLength + 1
    /\ Segs[3][2] - Segs[3][1] < Window

----------------------------------------------------------------------------
(* read_cv_data *)

\* first_xu = df[col].dropna(); an empty cell is ""
RECURSIVE dropna(_)
dropna(col) ==
    IF col = << >> THEN << >>
    ELSE IF Head(col) = "" THEN dropna(Tail(col))
    ELSE << Head(col) >> \o dropna(Tail(col))

\* lines 23-26 and 27-30: the first non-empty value of the unit column
UnitOf(hasCol, col, default) ==
    IF hasCol /\ dropna(col) # << >> THEN Head(dropna(col)) ELSE default

\* lines 13-15: the result for a source pandas finds no columns in
NoData ==
    [isP |-> FALSE, isC |-> FALSE, potential |-> << >>, current |-> << >>,
     x_unit |-> "V", y_unit |-> "A", warned |-> TRUE]

\* lines 10-32.  pd.read_csv parses from the stream's current position to
\* its end and does not rewind it: a source of zero bytes, and a stream
\* that was already read (used), both raise EmptyDataError (lines 13-15).
\* df.get of a missing column is None (isP, isC FALSE).
read_cv_data(f, used) ==
    IF f.bytes = FALSE \/ used
    THEN NoData
    ELSE [isP |-> f.hasX, isC |-> f.hasY,
          potential |-> IF f.hasX THEN f.x ELSE << >>,
          current |-> IF f.hasY THEN f.y ELSE << >>,
          x_unit |-> UnitOf(f.hasXU, f.x_unit, "V"),
          y_unit |-> UnitOf(f.hasYU, f.y_unit, "A"),
          warned |-> FALSE]

----------------------------------------------------------------------------
(* The series of a figure *)

\* colors(k): entry k of the tab10 palette
Tab10(k) == [cmap |-> "tab10", k |-> k]
Named(c) == [cmap |-> c, k |-> 0]

Line(fi, kind, cycle, start, end, color) ==
    [file |-> fi, kind |-> kind, cycle |-> cycle, start |-> start, end |-> end,
     n |-> end - start, color |-> color]

\* a faulty variant: a series shorter than the window is returned as it is
savgol_filter_lenient(n) == [ok |-> TRUE, n |-> n]

\* savgol_filter(values, 11, 3) on n values (lines 76-77, 82-83, 119-120,
\* 126-127): in its default mode it raises ValueError when the window is
\* longer than the data, and otherwise returns as many values as it got.
savgol_filter(n) ==
    IF n < Window THEN [ok |-> FALSE, n |-> 0] ELSE [ok |-> TRUE, n |-> n]

\* a faulty variant: the palette index is not wrapped
CycleColorNoWrap(i, j) == Tab10(i + j)

\* line 116: colors((i + j) % colors.N); line 73 is the case i = 0
CycleColor(i, j) == Tab10((i + j) % PaletteSize)

\* lines 53-57: the indices of the cycles left selected, in increasing order
RECURSIVE select_cycles(_, _, _)
select_cycles(nsegs, hide, i) ==
    IF i >= nsegs THEN << >>
    ELSE IF i \in hide THEN select_cycles(nsegs, hide, i + 1)
    ELSE << i >> \o select_cycles(nsegs, hide, i + 1)

\* what the user may have deselected in the multiselect: nothing, or one cycle
HideChoices(nsegs) == {{}} \cup {{j} : j \in 0..(nsegs - 1)}

\* lines 71-78 and 114-121: the loop over the selected cycles, from position
\* k of sel on; base is 0 in plot_single_cv and the file index in plot_multi_cv
RECURSIVE plot_cycles(_, _, _, _, _, _, _)
plot_cycles(fi, base, segments, sel, k, smooth, acc) ==
    IF k > Len(sel) THEN [error |-> "none", series |-> acc]
    ELSE LET j == sel[k]
             start == segments[j + 1][1]
             end == segments[j + 1][2]
             raw == Line(fi, "cycle", j, start, end, CycleColor(base, j))
             sm == savgol_filter(end - start)
         IN  IF ~smooth
             THEN plot_cycles(fi, base, segments, sel, k + 1, smooth, Append(acc, raw))
             ELSE IF ~sm.ok
             THEN [error |-> "ValueError: window_length", series |-> Append(acc, raw)]
             ELSE plot_cycles(fi, base, segments, sel, k + 1, smooth,
                      acc \o << raw, [raw EXCEPT !.kind = "cycle smoothed", !.n = sm.n] >>)

\* lines 68-78 and 111-121: the auto_split branch for one file
plot_split(fi, base, rd, hide, smooth) ==
    LET sg == split_cycles_by_return_to_start(rd.potential, TolDefault)
    IN  IF ~sg.ok THEN [error |-> sg.error, series |-> << >>]
        ELSE plot_cycles(fi, base, sg.segments,
                         select_cycles(Len(sg.segments), hide, 0), 1, smooth, << >>)

\* lines 79-84 and 122-128: the whole curve, and its smoothed copy
plot_whole(fi, rd, smooth, rawColor, smoothColor) ==
    LET n == Len(rd.potential)
        raw == Line(fi, "raw", -1, 0, n, rawColor)
        sm == savgol_filter(n)
    IN  IF ~smooth THEN [error |-> "none", series |-> << raw >>]
        ELSE IF ~sm.ok THEN [error |-> "ValueError: window_length", series |-> << raw >>]
        ELSE [error |-> "none",
              series |-> << raw, [raw EXCEPT !.kind = "smoothed", !.n = sm.n,
                                             !.color = smoothColor] >>]

\* np.argmax / np.argmin (lines 87-88): position of the first largest / smallest value
argmax(c) == CHOOSE i \in 0..(Len(c) - 1) :
                /\ \A k \in 0..(Len(c) - 1) : c[k + 1] <= c[i + 1]
                /\ \A k \in 0..(i - 1) : c[k + 1] < c[i + 1]
argmin(c) == CHOOSE i \in 0..(Len(c) - 1) :
                /\ \A k \in 0..(Len(c) - 1) : c[k + 1] >= c[i + 1]
                /\ \A k \in 0..(i - 1) : c[k + 1] > c[i + 1]

\* a faulty variant: peaks are marked whenever the toggle is on
MarksPeaksAlways(mark_peaks, auto_split) == mark_peaks

\* line 86: mark_peaks and not auto_split
MarksPeaks(mark_peaks, auto_split) == mark_peaks /\ ~auto_split

\* lines 86-90: the two peak markers; argmax of an empty sequence raises ValueError
plot_peaks(fi, rd, acc) ==
    IF Len(rd.current) = 0
    THEN [error |-> "ValueError: argmax of an empty sequence", series |-> acc]
    ELSE LET ox_idx == argmax(rd.current)
             red_idx == argmin(rd.current)
         IN  [error |-> "none",
              series |-> acc \o << Line(fi, "Ox peak", -1, ox_idx, ox_idx + 1, Named("ro")),
                                   Line(fi, "Red peak", -1, red_idx, red_idx + 1, Named("bo")) >>]

\* a faulty variant: a file without its columns is drawn as an empty curve
MissingColumnsNever(rd) == FALSE

\* lines 62 and 108: potential is None or current is None
MissingColumns(rd) == ~rd.isP \/ ~rd.isC

\* lines 60-96: what plot_single_cv makes of the loaded data rd of file fi
plot_single_cv(fi, rd, o, hide) ==
    IF MissingColumns(rd)
    THEN [error |-> "ValueError: CSV missing required columns", series |-> << >>,
          labels |-> Unset]
    ELSE LET body == IF o.auto_split
                     THEN plot_split(fi, 0, rd, hide, o.smooth)
                     ELSE plot_whole(fi, rd, o.smooth, Named("blue"), Named("red"))
             marked == IF body.error = "none" /\ MarksPeaks(o.mark_peaks, o.auto_split)
                       THEN plot_peaks(fi, rd, body.series)
                       ELSE body
         IN  [error |-> marked.error, series |-> marked.series,
              labels |-> IF marked.error = "none"
                         THEN [x |-> rd.x_unit, y |-> rd.y_unit]
                         ELSE Unset]

\* lines 103, 116, 123: i of enumerate(files), the position in the upload list
FileColorBase(i) == i

\* lines 111-128: what one pass of the loop of plot_multi_cv adds for file i
plot_multi_file(i, rd, o, hide) ==
    IF o.auto_split
    THEN plot_split(i, FileColorBase(i), rd, hide, o.smooth)
    ELSE plot_whole(i, rd, o.smooth, Tab10(FileColorBase(i) % PaletteSize),
                    Tab10(FileColorBase(i) % PaletteSize))

\* the cycles select_cycles offers for the data rd (none when the segmenter raises)
NCycles(rd) == Len(split_cycles_by_return_to_start(rd.potential, TolDefault).segments)

\* the choices left to the user in select_cycles, when it is reached
Hides(rd, o) ==
    IF o.auto_split /\ ~MissingColumns(rd) THEN HideChoices(NCycles(rd)) ELSE {{}}

----------------------------------------------------------------------------
(* The uploaded files of a script run *)

\* a current trace of n points
Cur(n) == [k \in 1..n |-> ((k * 3) % 7) - 3]

\* a potential sweep of n points that returns to V0 every 11 points
Saw(n) == [k \in 1..n |-> IF (k - 1) % (MinLength + 1) = 0 THEN V0 ELSE V0 + FarOff]

\* a unit column: the unit in the first row, empty cells below
UnitCol(n, u) == [k \in 1..n |-> IF k = 1 THEN u ELSE ""]

ZeroBytes ==
    [bytes |-> FALSE, nrows |-> 0, hasX |-> FALSE, hasY |-> FALSE, x |-> << >>, y |-> << >>,
     hasXU |-> FALSE, hasYU |-> FALSE, x_unit |-> << >>, y_unit |-> << >>]

Csv(n, hasX, hasY, units) ==
    [bytes |-> TRUE, nrows |-> n, hasX |-> hasX, hasY |-> hasY,
     x |-> IF hasX THEN Saw(n) ELSE << >>,
     y |-> IF hasY THEN Cur(n) ELSE << >>,
     hasXU |-> units, hasYU |-> units,
     x_unit |-> IF units THEN UnitCol(n, "mV") ELSE << >>,
     y_unit |-> IF units THEN UnitCol(n, "uA") ELSE << >>]

ShortLen == Window - 6

\* the kinds of file: no bytes; a column missing; curves shorter than, equal
\* to and longer than the smoothing window; a header and no rows
Shapes ==
    << ZeroBytes,
       Csv(ShortLen, FALSE, TRUE, TRUE),
       Csv(ShortLen, TRUE, FALSE, FALSE),
       Csv(ShortLen, TRUE, TRUE, TRUE),
       Csv(Window, TRUE, TRUE, FALSE),
       Csv(MaxLen, TRUE, TRUE, TRUE),
       Csv(0, TRUE, TRUE, TRUE) >>

MaxFiles == 2

\* MaxPad files of zero bytes ahead of the others, or none
PadCounts == {0, MaxPad}

WithName(sh, nm) == [name |-> nm] @@ sh

\* an upload list: p files of zero bytes, then the files of the kinds t[1],
\* t[2], ...; the name of a file is its position
Upload(p, t) ==
    [k \in 1..(p + Len(t)) |-> WithName(IF k <= p THEN ZeroBytes ELSE Shapes[t[k - p]], k)]

\* the selections of the overlay checkboxes over p padding files followed by
\* the files p+1..n: the padding files together, the others singly
Selections(p, n) ==
    { K \cup (IF pads THEN 1..p ELSE {}) : K \in SUBSET ((p + 1)..n), pads \in BOOLEAN }

\* the widget values of a run (lines 149-155 and 161-164)
SingleOpts(n) ==
    { [view_mode |-> "single", smooth |-> sm, mark_peaks |-> mp, auto_split |-> au,
       selected |-> k, selected_files |-> {}] :
        sm \in BOOLEAN, mp \in BOOLEAN, au \in BOOLEAN, k \in 1..n }
MultiOpts(p, n) ==
    { [view_mode |-> "multi", smooth |-> sm, mark_peaks |-> mp, auto_split |-> au,
       selected |-> 0, selected_files |-> sel] :
        sm \in BOOLEAN, mp \in BOOLEAN, au \in BOOLEAN, sel \in Selections(p, n) }

\* the start of a script run: files uploaded, widgets set, every stream unread
Init ==
    /\ potential = << >>
    /\ tol = TolDefault
    /\ segResult = Pending
    /\ \E p \in PadCounts : \E t \in UNION { [1..k -> DOMAIN Shapes] : k \in 0..MaxFiles } :
          /\ uploaded_files = Upload(p, t)
          /\ IF p + Len(t) = 0
             THEN opts = NoOpts
             ELSE opts \in SingleOpts(p + Len(t)) \cup MultiOpts(p, p + Len(t))
    /\ consumed = [k \in 1..Len(uploaded_files) |-> FALSE]
    /\ hidden = [k \in 1..Len(uploaded_files) |-> {}]
    /\ pc = "start"
    /\ idx = 0
    /\ series = << >>
    /\ labels = Unset
    /\ warnings = {}
    /\ error = "none"

----------------------------------------------------------------------------
(* The script, lines 146-173 *)

\* lines 172-173: nothing uploaded
NoUpload ==
    /\ pc = "start"
    /\ uploaded_files = << >>
    /\ pc' = "info"
    /\ UNCHANGED << uploaded_files, opts, consumed, idx, series, labels, warnings, error, hidden >>
    /\ UNCHANGED segVars

\* lines 154-157: plot_single_cv on the selected file
RunSingle ==
    /\ pc = "start"
    /\ opts.view_mode = "single"
    /\ LET k == opts.selected
           rd == read_cv_data(uploaded_files[k], consumed[k])
       IN  \E hide \in Hides(rd, opts) :
              LET r == plot_single_cv(k - 1, rd, opts, hide)
              IN  /\ series' = r.series
                  /\ error' = r.error
                  /\ labels' = r.labels
                  /\ pc' = IF r.error = "none" THEN "done" ELSE "error"
                  /\ consumed' = [consumed EXCEPT ![k] = TRUE]
                  /\ warnings' = IF rd.warned THEN {k - 1} ELSE {}
                  /\ hidden' = [hidden EXCEPT ![k] = hide]
    /\ UNCHANGED << uploaded_files, opts, idx >>
    /\ UNCHANGED segVars

\* lines 166-170: overlay mode with every file deselected
NoSelection ==
    /\ pc = "start"
    /\ opts.view_mode = "multi"
    /\ opts.selected_files = {}
    /\ pc' = "info"
    /\ UNCHANGED << uploaded_files, opts, consumed, idx, series, labels, warnings, error, hidden >>
    /\ UNCHANGED segVars

\* lines 166-167 and 99-101: plot_multi_cv is entered
MultiBegin ==
    /\ pc = "start"
    /\ opts.view_mode = "multi"
    /\ opts.selected_files # {}
    /\ pc' = "loop"
    /\ idx' = 0
    /\ UNCHANGED << uploaded_files, opts, consumed, series, labels, warnings, error, hidden >>
    /\ UNCHANGED segVars

\* lines 103-105: a file that is not selected
MultiSkipUnselected ==
    /\ pc = "loop"
    /\ idx < Len(uploaded_files)
    /\ opts.selected_files # {}
    /\ uploaded_files[idx + 1].name \notin opts.selected_files
    /\ idx' = idx + 1
    /\ UNCHANGED << uploaded_files, opts, consumed, pc, series, labels, warnings, error, hidden >>
    /\ UNCHANGED segVars

IsSelected(f) == ~(opts.selected_files # {} /\ f.name \notin opts.selected_files)

\* lines 107-109: a selected file that yields no potential or no current
MultiSkipNoData ==
    /\ pc = "loop"
    /\ idx < Len(uploaded_files)
    /\ IsSelected(uploaded_files[idx + 1])
    /\ LET rd == read_cv_data(uploaded_files[idx + 1], consumed[idx + 1])
       IN  /\ MissingColumns(rd)
           /\ warnings' = IF rd.warned THEN warnings \cup {idx} ELSE warnings
    /\ consumed' = [consumed EXCEPT ![idx + 1] = TRUE]
    /\ idx' = idx + 1
    /\ UNCHANGED << uploaded_files, opts, pc, series, labels, error, hidden >>
    /\ UNCHANGED segVars

\* lines 107-128: a selected file with both columns is plotted, or ends the render
MultiPlot ==
    /\ pc = "loop"
    /\ idx < Len(uploaded_files)
    /\ IsSelected(uploaded_files[idx + 1])
    /\ LET rd == read_cv_data(uploaded_files[idx + 1], consumed[idx + 1])
       IN  /\ ~MissingColumns(rd)
           /\ warnings' = IF rd.warned THEN warnings \cup {idx} ELSE warnings
           /\ \E hide \in Hides(rd, opts) :
                 LET r == plot_multi_file(idx, rd, opts, hide)
                 IN  /\ series' = series \o r.series
                     /\ error' = r.error
                     /\ pc' = IF r.error = "none" THEN "loop" ELSE "error"
                     /\ idx' = IF r.error = "none" THEN idx + 1 ELSE idx
                     /\ hidden' = [hidden EXCEPT ![idx + 1] = hide]
    /\ consumed' = [consumed EXCEPT ![idx + 1] = TRUE]
    /\ UNCHANGED << uploaded_files, opts, labels >>
    /\ UNCHANGED segVars

\* lines 130-141: the axis units are read from files[0] again, and the figure returned
MultiLabels ==
    /\ pc = "loop"
    /\ idx = Len(uploaded_files)
    /\ LET rd == read_cv_data(uploaded_files[1], consumed[1])
       IN  /\ labels' = IF MissingColumns(rd)
                        THEN [x |-> "V", y |-> "A"]
                        ELSE [x |-> rd.x_unit, y |-> rd.y_unit]
           /\ warnings' = IF rd.warned THEN warnings \cup {0} ELSE warnings
    /\ consumed' = [consumed EXCEPT ![1] = TRUE]
    /\ pc' = "done"
    /\ UNCHANGED << uploaded_files, opts, idx, series, error, hidden >>
    /\ UNCHANGED segVars

Next ==
    \/ NoUpload
    \/ RunSingle
    \/ NoSelection
    \/ MultiBegin
    \/ MultiSkipUnselected
    \/ MultiSkipNoData
    \/ MultiPlot
    \/ MultiLabels

Spec == Init /\ [][Next]_vars

----------------------------------------------------------------------------
(* Properties of a script run *)

NFiles == Len(uploaded_files)
Multi == opts.view_mode = "multi"
Single == opts.view_mode = "single"
Rendered == pc = "done"
Raised == pc = "error"
SeriesOf(fi) == { k \in 1..Len(series) : series[k].file = fi }
Curves == { k \in 1..Len(series) : series[k].kind \in {"raw", "cycle"} }
Peaks(kind) == { k \in 1..Len(series) : series[k].kind = kind }
\* the file at 1-based position k is drawn in this run's overlay
Picked(k) == uploaded_files[k].name \in opts.selected_files
ZeroRows(f) == f.nrows = 0
LacksColumn(f) == f.bytes /\ (~f.hasX \/ ~f.hasY)
BothColumns(f) == f.bytes /\ f.hasX /\ f.hasY
\* the series of the file at position k are on the axes: its whole curve, or
\* with auto_split each of its cycles that is not hidden
Drawn(k) ==
    IF opts.auto_split
    THEN \A j \in (0..(NCycles(read_cv_data(uploaded_files[k], FALSE)) - 1)) \ hidden[k] :
            \E m \in SeriesOf(k - 1) : series[m].cycle = j
    ELSE SeriesOf(k - 1) # {}

\* C4: a CSV source with zero data rows, empty or header only, loads as
\* (None, None, "V", "A"), and a multi-file render skips it without an error.
C4_ZeroRowsSkipped ==
    \A k \in 1..NFiles :
        (ZeroRows(uploaded_files[k]) /\ consumed[k] /\ (Multi => k - 1 <= idx)) =>
            /\ LET rd == read_cv_data(uploaded_files[k], FALSE)
               IN  ~rd.isP /\ ~rd.isC /\ rd.x_unit = "V" /\ rd.y_unit = "A"
            /\ Multi => (SeriesOf(k - 1) = {} /\ ~(Raised /\ idx = k - 1))

\* C5 (as claimed): a file without its x or y column ends a single-file
\* render with an error and no figure; a multi-file render with such a file
\* selected raises nothing and adds the series of every other selected file
\* that has both columns.
C5_Original ==
    /\ (Single /\ pc # "start" /\ LacksColumn(uploaded_files[opts.selected]))
          => (Raised /\ series = << >>)
    /\ (Multi /\ pc \in {"done", "error"}
              /\ \E k \in 1..NFiles : Picked(k) /\ LacksColumn(uploaded_files[k]))
          => /\ Rendered
             /\ \A k \in 1..NFiles :
                   /\ LacksColumn(uploaded_files[k]) => SeriesOf(k - 1) = {}
                   /\ (Picked(k) /\ BothColumns(uploaded_files[k])) => Drawn(k)

\* C5 (as amended): a file without its x or y column ends a single-file
\* render with an error and no figure; in a multi-file render it gets no
\* series and raises nothing itself, and the loop goes on: every selected
\* file with both columns that the loop has passed has its series (with
\* auto_split, those of its cycles that are not hidden), all of them once
\* the figure is returned; the render ends early only where a
\* file that has both columns raises on its own account.
C5_MissingColumns ==
    /\ (Single /\ pc # "start" /\ LacksColumn(uploaded_files[opts.selected]))
          => (Raised /\ series = << >> /\ labels = Unset)
    /\ Multi =>
          /\ \A k \in 1..NFiles :
                /\ LacksColumn(uploaded_files[k]) =>
                      (SeriesOf(k - 1) = {} /\ ~(Raised /\ idx = k - 1))
                /\ (Picked(k) /\ BothColumns(uploaded_files[k]) /\ (k - 1 < idx \/ Rendered))
                      => Drawn(k)
          /\ Raised => (Picked(idx + 1) /\ BothColumns(uploaded_files[idx + 1]))

C5_Witness ==
    /\ Multi
    /\ Rendered
    /\ NFiles = 2
    /\ Picked(1) /\ LacksColumn(uploaded_files[1])
    /\ Picked(2) /\ SeriesOf(1) # {}
    /\ SeriesOf(0) = {}

\* C6: with smoothing on, every curve or selected cycle that is plotted
\* either has at least 11 points and a smoothed series of the same length
\* beside it, or has fewer and the render ends in an error: no figure is
\* returned with a smoothed series missing or cut short.
C6_SmoothOrRaise ==
    opts.smooth =>
        \A k \in Curves :
            IF series[k].n >= Window
            THEN /\ k < Len(series)
                 /\ series[k + 1].kind \in {"smoothed", "cycle smoothed"}
                 /\ series[k + 1].file = series[k].file
                 /\ series[k + 1].cycle = series[k].cycle
                 /\ series[k + 1].n = series[k].n
            ELSE /\ Raised
                 /\ ~Rendered
                 /\ error = "ValueError: window_length"
                 /\ k = Len(series)

C6_Witness ==
    /\ opts.smooth
    /\ Raised
    /\ Len(series) = 5
    /\ series[4].kind = "cycle smoothed" /\ series[4].n = Window
    /\ series[5].kind = "cycle" /\ series[5].n < Window

\* C7: a rendered plot holds one oxidation and one reduction marker exactly
\* when it is a single-file render with mark_peaks on and auto_split off; a
\* multi-file render, or one with auto_split on, never gets a marker.
C7_PeakMarkers ==
    /\ Rendered =>
          IF Single /\ opts.mark_peaks /\ ~opts.auto_split
          THEN Cardinality(Peaks("Ox peak")) = 1 /\ Cardinality(Peaks("Red peak")) = 1
          ELSE Peaks("Ox peak") = {} /\ Peaks("Red peak") = {}
    /\ (Multi \/ opts.auto_split) => (Peaks("Ox peak") = {} /\ Peaks("Red peak") = {})

C7_Witness ==
    /\ Rendered
    /\ Single /\ opts.mark_peaks /\ ~opts.auto_split
    /\ Peaks("Ox peak") # {}
    /\ series[Len(series)].kind = "Red peak"

\* the first file, in upload order, that is selected and has a curve in the plot
FirstPlotted ==
    CHOOSE k \in 1..NFiles :
        /\ Picked(k) /\ SeriesOf(k - 1) # {}
        /\ \A m \in 1..(k - 1) : ~(Picked(m) /\ SeriesOf(m - 1) # {})

\* C8: the axis units of a multi-file plot are those of the first file that
\* is selected and loaded into the plot.
C8_FirstSelectedUnits ==
    (Multi /\ Rendered /\ series # << >>) =>
        LET rd == read_cv_data(uploaded_files[FirstPlotted], FALSE)
        IN  labels = [x |-> rd.x_unit, y |-> rd.y_unit]

\* C9: in a multi-file render with auto-split, the series of cycle j of file
\* i has palette colour (i + j) mod 10, i being the file's position in the
\* upload list and j the cycle's position among the file's segments, whatever
\* else is deselected, skipped or hidden.
C9_CycleColour ==
    (Multi /\ opts.auto_split) =>
        \A k \in 1..Len(series) :
            \E i \in 0..(NFiles - 1) :
                LET sg == split_cycles_by_return_to_start(uploaded_files[i + 1].x, TolDefault)
                IN  /\ series[k].file = i
                    /\ \E j \in 0..(Len(sg.segments) - 1) :
                          /\ sg.segments[j + 1] = << series[k].start, series[k].end >>
                          /\ series[k].cycle = j
                          /\ series[k].color = [cmap |-> "tab10", k |-> (i + j) % PaletteSize]

C9_Witness ==
    /\ Multi /\ opts.auto_split /\ Rendered
    /\ \E k \in 1..Len(series) :
          /\ series[k].file + series[k].cycle >= PaletteSize
          /\ series[k].color.k = 0
          /\ hidden[series[k].file + 1] # {}
    /\ \E m \in 1..NFiles : ~Picked(m)

====
